---- MODULE Spec2Model ----
(***************************************************************************)
(* Browser-session lifecycle of the LambdaTest browser provider            *)
(* (openBrowser / _startBrowser / closeBrowser / dispose and the           *)
(* keep-alive ping timer), modelled as a state machine.                    *)
(*                                                                         *)
(* Every invocation of an async provider method is a "call" with its own   *)
(* program counter.  One action is the code that runs between two awaits:  *)
(* JavaScript runs such a segment atomically, and any other call may run   *)
(* while a call is suspended at an await.  The results of the imported     *)
(* helpers (_connect, _destroy, _parseCapabilities), of the wd client      *)
(* (init, get, quit) and of fs.appendFile are inputs chosen with \E.       *)
(***************************************************************************)
EXTENDS Integers, Sequences, FiniteSets

\* ------------------------------------------------------------- bounds
MaxCalls == 2          \* provider method invocations in one run
MaxIds == 2            \* distinct browser ids the runner uses

\* ------------------------------------------------------------- constants
\* the number of tunnels, imported from ./util; two tunnels make "an earlier
\* tunnel failed, a later one is left" a case of the loops
LT_TUNNEL_NUMBER == 2

Calls == 1..MaxCalls
Ids == 1..MaxIds
\* one driver handle per call at most
Drivers == 1..MaxCalls
NoDriver == 0

VARIABLES
    env,             \* PROCESS_ENVIRONMENT: which settings are present
    openedBrowsers,  \* this.openedBrowsers: id -> driver handle
    drivers,         \* the fields of each driver handle
    nextDriver,      \* handles created so far + 1
    calls,           \* one record per method invocation
    disposals        \* the dispose() run started by / as each call

vars == <<env, openedBrowsers, drivers, nextDriver, calls, disposals>>

\* ------------------------------------------------------------- data
NewDriver ==
    [sessionID |-> FALSE,       \* webDriver.sessionID is set
     listener |-> FALSE,        \* the once('status') listener is armed
     pingIntervalId |-> FALSE,  \* webDriver.pingIntervalId is set
     timer |-> FALSE,           \* the interval behind pingIntervalId runs
     open |-> FALSE,            \* the remote session exists on the hub
     url |-> FALSE]             \* the session has navigated to pageUrl

IdleCall ==
    [op |-> "none", id |-> 0, pc |-> "idle", tunnel |-> 0,
     drv |-> NoDriver, err |-> "none", trace |-> <<>>, caught |-> FALSE,
     quits |-> 0, atResolve |-> NoDriver]

NoDispose ==
    [dpc |-> "none", tunnel |-> 0, log |-> <<>>, inflight |-> 0,
     caught |-> FALSE]

Step(name, arg) == <<name, arg>>

\* ------------------------------------------------------------- dispose
\* dispose(): the code up to the first await (the call of _destroy(0))
DisposeStart ==
    IF LT_TUNNEL_NUMBER > 0
    THEN [NoDispose EXCEPT !.dpc = "destroy", !.log = <<0>>, !.inflight = 1]
    ELSE [NoDispose EXCEPT !.dpc = "done"]

\* dispose(): the code run when the awaited _destroy(r.tunnel) settles
DisposeStep(r, ok) ==
    IF ~ok
    THEN [r EXCEPT !.dpc = "done", !.inflight = @ - 1, !.caught = TRUE]
    ELSE IF r.tunnel + 1 < LT_TUNNEL_NUMBER
         THEN [r EXCEPT !.tunnel = @ + 1, !.log = Append(@, r.tunnel + 1)]
         ELSE [r EXCEPT !.dpc = "done", !.inflight = @ - 1]

\* dispose() without its try/catch: an error of _destroy rejects dispose()
DisposeOutcomeUncaught(r) == IF r.caught THEN "rejected" ELSE "resolved"

\* how the promise of dispose() settles once its body has run
DisposeOutcome(r) == "resolved"

\* ------------------------------------------------------------- timer
\* the once('status') listener of _startBrowser: setInterval(pingWebDriver)
EmitStatus(d) ==
    IF d.listener
    THEN [d EXCEPT !.listener = FALSE, !.pingIntervalId = TRUE, !.timer = TRUE]
    ELSE d

\* clearInterval(webDriver.pingIntervalId)
ClearInterval(d) ==
    IF d.pingIntervalId THEN [d EXCEPT !.timer = FALSE] ELSE d

\* ------------------------------------------------------------- openBrowser
\* the guard with && in place of ||: one missing credential passes
AuthMissingBoth == ~env.LT_USERNAME /\ ~env.LT_ACCESS_KEY

\* !PROCESS_ENVIRONMENT.LT_USERNAME || !PROCESS_ENVIRONMENT.LT_ACCESS_KEY
AuthMissing == ~env.LT_USERNAME \/ ~env.LT_ACCESS_KEY

\* invocations take the call records in order
FirstFree(c) ==
    /\ calls[c].pc = "idle"
    /\ IF c = 1 THEN TRUE ELSE calls[c - 1].pc # "idle"

\* what openBrowser does once the tunnel loop is over: call _parseCapabilities
CallParse(r) ==
    [r EXCEPT !.pc = "parse", !.trace = Append(@, Step("parse", 0))]

\* what openBrowser does when the loop reaches tunnel t
CallConnect(r, t) ==
    IF t < LT_TUNNEL_NUMBER
    THEN [r EXCEPT !.pc = "connect", !.tunnel = t,
                   !.trace = Append(@, Step("connect", t))]
    ELSE CallParse(r)

\* a tunnel loop that tries the failed tunnel again
ConnectRetry(r) == [r EXCEPT !.trace = Append(@, Step("connect", r.tunnel))]

\* the continuation of `await _connect(tunnel)` when _connect rejected
ConnectFailed(r) == [r EXCEPT !.pc = "rejected", !.err = "connect"]

OpenBrowser(c, id) ==
    /\ FirstFree(c)
    /\ LET r == [IdleCall EXCEPT !.op = "open", !.id = id] IN
       calls' = [calls EXCEPT ![c] =
                    IF AuthMissing
                    THEN [r EXCEPT !.pc = "rejected", !.err = "LT_AUTH_ERROR"]
                    ELSE CallConnect(r, 0)]
    /\ UNCHANGED <<env, openedBrowsers, drivers, nextDriver, disposals>>

ConnectReturns(c, ok) ==
    /\ calls[c].pc = "connect"
    /\ calls' = [calls EXCEPT ![c] =
                    IF ok THEN CallConnect(@, @.tunnel + 1)
                    ELSE ConnectFailed(@)]
    /\ UNCHANGED <<env, openedBrowsers, drivers, nextDriver, disposals>>

\* results of _parseCapabilities: capabilities (desktop or real mobile), an
\* Error object returned as a value, or a rejection
ParseResults == {"desktop", "mobile", "error", "throw"}

\* _parseCapabilities settles.  With capabilities, openBrowser enters
\* _startBrowser: wd.promiseChainRemote builds the handle (for a real mobile
\* a second one replaces it; the first is dropped before it gets a listener
\* or an entry in openedBrowsers, so it takes no handle of the model), the
\* listener is armed, the handle is registered and init(...).get(url) is
\* called.  The awaits of promiseChainRemote wait for no I/O: what another
\* call could run in between commutes with the creation of a handle that
\* nothing else can reach yet, so the whole runs as one step.
ParseReturns(c, res) ==
    /\ calls[c].pc = "parse"
    /\ CASE res = "throw" ->
              /\ calls' = [calls EXCEPT ![c].pc = "rejected", ![c].err = "parse"]
              /\ UNCHANGED <<openedBrowsers, drivers, nextDriver, disposals>>
         [] res = "error" ->
              /\ calls' = [calls EXCEPT ![c].pc = "rejected", ![c].err = "caps"]
              /\ disposals' = [disposals EXCEPT ![c] = DisposeStart]
              /\ UNCHANGED <<openedBrowsers, drivers, nextDriver>>
         [] OTHER ->
              /\ drivers' = [drivers EXCEPT ![nextDriver] =
                                 [NewDriver EXCEPT !.listener = TRUE]]
              /\ nextDriver' = nextDriver + 1
              /\ openedBrowsers' =
                     [openedBrowsers EXCEPT ![calls[c].id] = nextDriver]
              /\ calls' = [calls EXCEPT
                     ![c].pc = "init",
                     ![c].drv = nextDriver,
                     ![c].trace = @ \o <<Step("register", 0), Step("init", 0)>>]
              /\ UNCHANGED disposals
    /\ UNCHANGED env

\* the catch block of _startBrowser: this.dispose() (not awaited); throw err
StartFailed(c, err) ==
    /\ calls' = [calls EXCEPT ![c].pc = "rejected", ![c].err = err]
    /\ disposals' = [disposals EXCEPT ![c] = DisposeStart]

\* init(capabilities) settles; on success wd sets sessionID, emits 'status'
\* and goes on to get(url)
InitReturns(c, ok) ==
    /\ calls[c].pc = "init"
    /\ IF ok
       THEN /\ drivers' = [drivers EXCEPT ![calls[c].drv] =
                   EmitStatus([@ EXCEPT !.sessionID = TRUE, !.open = TRUE])]
            /\ calls' = [calls EXCEPT ![c].pc = "get",
                                      ![c].trace = Append(@, Step("get", 0))]
            /\ UNCHANGED disposals
       ELSE /\ StartFailed(c, "init")
            /\ UNCHANGED drivers
    /\ UNCHANGED <<env, openedBrowsers, nextDriver>>

\* the last step of openBrowser: setUserAgentMetaInfo(id, sessionUrl)
Finish(r) ==
    [r EXCEPT !.pc = "resolved", !.trace = Append(@, Step("meta", 0)),
              !.atResolve = openedBrowsers[r.id]]

\* get(url) settles; on success openBrowser goes on after _startBrowser
GetReturns(c, ok) ==
    /\ calls[c].pc = "get"
    /\ IF ok
       THEN /\ drivers' = [drivers EXCEPT ![calls[c].drv].url = TRUE]
            /\ calls' = [calls EXCEPT ![c] =
                   IF env.LOG_LT_SESSION_URL
                   THEN [@ EXCEPT !.pc = "log",
                                  !.trace = Append(@, Step("log", 0))]
                   ELSE Finish(@)]
            /\ UNCHANGED disposals
       ELSE /\ StartFailed(c, "get")
            /\ UNCHANGED drivers
    /\ UNCHANGED <<env, openedBrowsers, nextDriver>>

\* writeSessionUrlToFile: fs.appendFile settles, a failure is only logged
LogReturns(c, ok) ==
    /\ calls[c].pc = "log"
    /\ calls' = [calls EXCEPT ![c] = Finish(@)]
    /\ UNCHANGED <<env, openedBrowsers, drivers, nextDriver, disposals>>

\* ------------------------------------------------------------- closeBrowser
\* closeBrowser without its try/catch: an error of quit() rejects it
CloseOutcomeUncaught(ok) == IF ok THEN "resolved" ELSE "rejected"

\* how closeBrowser settles after `await quit()` resolved (ok) or rejected
CloseOutcome(ok) == "resolved"

CloseBrowser(c, id) ==
    /\ FirstFree(c)
    /\ LET d == openedBrowsers[id]
           r == [IdleCall EXCEPT !.op = "close", !.id = id, !.drv = d] IN
       IF d = NoDriver
       THEN /\ calls' = [calls EXCEPT ![c] = [r EXCEPT !.pc = "resolved"]]
            /\ UNCHANGED drivers
       ELSE /\ drivers' = [drivers EXCEPT ![d] = ClearInterval(@)]
            /\ calls' = [calls EXCEPT ![c] =
                   IF drivers[d].sessionID
                   THEN [r EXCEPT !.pc = "quit", !.quits = 1]
                   ELSE [r EXCEPT !.pc = "resolved"]]
    /\ UNCHANGED <<env, openedBrowsers, nextDriver, disposals>>

QuitReturns(c, ok) ==
    /\ calls[c].pc = "quit"
    /\ calls' = [calls EXCEPT ![c].pc = CloseOutcome(ok), ![c].caught = ~ok]
    /\ drivers' = [drivers EXCEPT ![calls[c].drv].open = IF ok THEN FALSE ELSE @]
    /\ UNCHANGED <<env, openedBrowsers, nextDriver, disposals>>

\* ------------------------------------------------------------- dispose
Dispose(c) ==
    /\ FirstFree(c)
    /\ disposals' = [disposals EXCEPT ![c] = DisposeStart]
    /\ calls' = [calls EXCEPT ![c] =
           [IdleCall EXCEPT !.op = "dispose",
                !.pc = IF DisposeStart.dpc = "done"
                       THEN DisposeOutcome(DisposeStart) ELSE "dispose"]]
    /\ UNCHANGED <<env, openedBrowsers, drivers, nextDriver>>

\* an awaited _destroy(tunnel) settles, in dispose() called by the runner or
\* started by a failing openBrowser
DestroyReturns(c, ok) ==
    /\ disposals[c].dpc = "destroy"
    /\ LET r == DisposeStep(disposals[c], ok) IN
       /\ disposals' = [disposals EXCEPT ![c] = r]
       /\ calls' = IF calls[c].op = "dispose" /\ r.dpc = "done"
                   THEN [calls EXCEPT ![c].pc = DisposeOutcome(r)]
                   ELSE calls
    /\ UNCHANGED <<env, openedBrowsers, drivers, nextDriver>>

\* ------------------------------------------------------------- ping
\* the interval fires: ping(webDriver) -> webDriver.safeExecute(1, ...);
\* handlePingError only logs, so a ping changes nothing the provider holds
Ping(d) ==
    /\ d < nextDriver
    /\ drivers[d].timer
    /\ UNCHANGED vars

\* ------------------------------------------------------------- spec
Init ==
    /\ env \in [LT_USERNAME : BOOLEAN, LT_ACCESS_KEY : BOOLEAN,
                LOG_LT_SESSION_URL : BOOLEAN]
    /\ openedBrowsers = [i \in Ids |-> NoDriver]
    /\ drivers = [d \in Drivers |-> NewDriver]
    /\ nextDriver = 1
    /\ calls = [c \in Calls |-> IdleCall]
    /\ disposals = [c \in Calls |-> NoDispose]

Next ==
    \/ \E c \in Calls, id \in Ids : OpenBrowser(c, id)
    \/ \E c \in Calls, ok \in BOOLEAN : ConnectReturns(c, ok)
    \/ \E c \in Calls, res \in ParseResults : ParseReturns(c, res)
    \/ \E c \in Calls, ok \in BOOLEAN : InitReturns(c, ok)
    \/ \E c \in Calls, ok \in BOOLEAN : GetReturns(c, ok)
    \/ \E c \in Calls, ok \in BOOLEAN : LogReturns(c, ok)
    \/ \E c \in Calls, id \in Ids : CloseBrowser(c, id)
    \/ \E c \in Calls, ok \in BOOLEAN : QuitReturns(c, ok)
    \/ \E c \in Calls : Dispose(c)
    \/ \E c \in Calls, ok \in BOOLEAN : DestroyReturns(c, ok)
    \/ \E d \in Drivers : Ping(d)

Spec == Init /\ [][Next]_vars

\* ------------------------------------------------------------- properties
IsPrefix(s, t) == Len(s) <= Len(t) /\ s = SubSeq(t, 1, Len(s))

Last(s) == s[Len(s)]

\* the tunnels in the order of the loops: 0, 1, ..., LT_TUNNEL_NUMBER - 1
AllTunnels == [i \in 1..LT_TUNNEL_NUMBER |-> i - 1]

\* the steps of a complete openBrowser call, in the documented order
ExpectedSteps ==
    [i \in 1..LT_TUNNEL_NUMBER |-> Step("connect", i - 1)]
    \o <<Step("parse", 0), Step("register", 0), Step("init", 0), Step("get", 0)>>
    \o (IF env.LOG_LT_SESSION_URL THEN <<Step("log", 0)>> ELSE <<>>)
    \o <<Step("meta", 0)>>

CredentialsMissing == ~env.LT_USERNAME \/ ~env.LT_ACCESS_KEY

\* C1: an openBrowser call made while LT_USERNAME or LT_ACCESS_KEY is missing
\* rejects with LT_AUTH_ERROR in its first step, having called neither
\* _connect nor _parseCapabilities, created no driver, started no dispose and
\* left openedBrowsers as it was; the rejected call does nothing afterwards.
C1_AuthRejectsFirst ==
    [][\A c \in Calls :
          /\ (calls[c].pc = "idle" /\ calls'[c].op = "open" /\ CredentialsMissing)
                => /\ calls'[c].pc = "rejected"
                   /\ calls'[c].err = "LT_AUTH_ERROR"
                   /\ calls'[c].trace = <<>>
                   /\ calls'[c].drv = NoDriver
                   /\ openedBrowsers' = openedBrowsers
                   /\ drivers' = drivers
                   /\ nextDriver' = nextDriver
                   /\ disposals' = disposals
          /\ (calls[c].op = "open" /\ calls[c].err = "LT_AUTH_ERROR")
                => /\ calls'[c] = calls[c]
                   /\ disposals'[c] = disposals[c]]_vars

\* C1 witness: with the access key missing, an openBrowser call was rejected
\* with LT_AUTH_ERROR after another call of the run had been made
C1_Witness ==
    /\ env.LT_USERNAME /\ ~env.LT_ACCESS_KEY
    /\ \E c \in Calls : /\ c > 1
                        /\ calls[c].op = "open"
                        /\ calls[c].pc = "rejected"
                        /\ calls[c].err = "LT_AUTH_ERROR"

\* C2: every openBrowser call runs its steps in the documented order
\* (_connect(0..n-1), _parseCapabilities, register + init, get, the log write
\* if enabled, setUserAgentMetaInfo), and when it resolves the session is
\* initialised, has navigated, and openedBrowsers[id] is that session's driver.
C2_OrderAndMapping ==
    \A c \in Calls :
        calls[c].op = "open" =>
            /\ IsPrefix(calls[c].trace, ExpectedSteps)
            /\ calls[c].pc = "resolved" =>
                   /\ calls[c].trace = ExpectedSteps
                   /\ drivers[calls[c].drv].sessionID
                   /\ drivers[calls[c].drv].url
                   /\ calls[c].atResolve = calls[c].drv

\* C3: once closeBrowser(id) has resolved for an id with an entry, no ping
\* timer of that entry's driver is running and no ping can be sent to it.
C3_NoPingAfterClose ==
    \A c \in Calls :
        (calls[c].op = "close" /\ calls[c].pc = "resolved"
            /\ calls[c].drv # NoDriver)
        => /\ ~drivers[calls[c].drv].timer
           /\ ~ENABLED Ping(calls[c].drv)

\* C4: after init or get failed in _startBrowser (the error rethrown to the
\* caller and the dispose() it started finished), the driver's remote session
\* is not open and its ping timer is not running.
C4_FailedStartLeavesNothing ==
    \A c \in Calls :
        (calls[c].op = "open" /\ calls[c].pc = "rejected"
            /\ calls[c].err \in {"init", "get"}
            /\ disposals[c].dpc = "done")
        => /\ ~drivers[calls[c].drv].open
           /\ ~drivers[calls[c].drv].timer

\* C5: closeBrowser never rejects.  Without an entry for id, or with a driver
\* that has no sessionID, it calls no quit() and resolves at once; with a
\* sessionID it calls quit() exactly once and resolves when quit() settles,
\* whether quit() resolved or rejected.
C5_CloseNeverRejects ==
    [][\A c \in Calls :
          /\ calls'[c].op = "close" => calls'[c].pc \in {"quit", "resolved"}
          /\ (calls[c].pc = "idle" /\ calls'[c].op = "close")
                => LET d == openedBrowsers[calls'[c].id] IN
                   /\ calls'[c].drv = d
                   /\ IF d = NoDriver
                      THEN calls'[c].pc = "resolved" /\ calls'[c].quits = 0
                      ELSE IF drivers[d].sessionID
                           THEN calls'[c].pc = "quit" /\ calls'[c].quits = 1
                           ELSE calls'[c].pc = "resolved" /\ calls'[c].quits = 0
          /\ (calls[c].op = "close" /\ calls[c].pc = "quit")
                => /\ calls'[c].pc \in {"quit", "resolved"}
                   /\ calls'[c].quits = 1
          /\ (calls[c].op = "close" /\ calls[c].pc = "resolved")
                => calls'[c] = calls[c]]_vars

\* C5 witness: closeBrowser resolved after its single quit() call failed
C5_Witness ==
    \E c \in Calls : /\ calls[c].op = "close"
                     /\ calls[c].pc = "resolved"
                     /\ calls[c].quits = 1
                     /\ calls[c].caught

\* C6: when dispose() has resolved, _destroy has been called for every
\* tunnel, also when the _destroy of an earlier tunnel failed.
C6_DisposeDestroysAll ==
    \A c \in Calls :
        (calls[c].op = "dispose" /\ calls[c].pc = "resolved")
        => disposals[c].log = AllTunnels

\* C7: dispose() never rejects: it resolves exactly when its loop is over,
\* also when a _destroy failed and was caught.  Every dispose run calls
\* _destroy with tunnel indices 0, 1, ... in ascending order, each at most
\* once, and has at most one _destroy call outstanding.
C7_DisposeNeverRejects ==
    \A c \in Calls :
        /\ calls[c].op = "dispose"
              => /\ calls[c].pc \in {"dispose", "resolved"}
                 /\ calls[c].pc = "resolved" <=> disposals[c].dpc = "done"
        /\ IsPrefix(disposals[c].log, AllTunnels)
        /\ disposals[c].inflight \in {0, 1}
        /\ disposals[c].inflight = 1 <=> disposals[c].dpc = "destroy"
        /\ disposals[c].dpc = "destroy"
              => Last(disposals[c].log) = disposals[c].tunnel

\* C7 witness: a dispose() call resolved after the _destroy of the second
\* tunnel failed and was caught
C7_Witness ==
    \E c \in Calls : /\ calls[c].op = "dispose"
                     /\ calls[c].pc = "resolved"
                     /\ disposals[c].caught
                     /\ disposals[c].log = <<0, 1>>

\* C8: within one openBrowser call no step is taken twice (_connect once per
\* tunnel, _parseCapabilities, init and get once each), and a call whose
\* step failed is rejected and stopped at that step: the failed step is the
\* last one it took.
C8_NoRetry ==
    \A c \in Calls :
        calls[c].op = "open" =>
            /\ IsPrefix(calls[c].trace, ExpectedSteps)
            /\ calls[c].err # "none" => calls[c].pc = "rejected"
            /\ calls[c].pc = "rejected" =>
                   CASE calls[c].err = "LT_AUTH_ERROR" -> calls[c].trace = <<>>
                     [] calls[c].err = "connect" ->
                            Last(calls[c].trace) = Step("connect", calls[c].tunnel)
                     [] calls[c].err \in {"parse", "caps"} ->
                            Last(calls[c].trace) = Step("parse", 0)
                     [] calls[c].err = "init" ->
                            Last(calls[c].trace) = Step("init", 0)
                     [] calls[c].err = "get" ->
                            Last(calls[c].trace) = Step("get", 0)
                     [] OTHER -> FALSE
            /\ calls[c].pc = "connect" =>
                   Last(calls[c].trace) = Step("connect", calls[c].tunnel)

\* C8 witness: an openBrowser call was rejected by the failure of _connect
\* for the second tunnel, after _connect(0) had succeeded
C8_Witness ==
    \E c \in Calls : /\ calls[c].op = "open"
                     /\ calls[c].pc = "rejected"
                     /\ calls[c].err = "connect"
                     /\ calls[c].trace = <<Step("connect", 0), Step("connect", 1)>>

\* C9: every driver whose ping timer is running is the driver some id is
\* mapped to in openedBrowsers.
C9_TimersStayMapped ==
    \A d \in Drivers :
        (d < nextDriver /\ drivers[d].timer)
        => \E id \in Ids : openedBrowsers[id] = d
====
